---- MODULE Spec2Model ----
(***************************************************************************)
(* Orchestration engine of open_deep_research (TypeScript port):           *)
(* clarify_with_user -> write_research_brief -> research_supervisor        *)
(* (supervisor <-> supervisor_tools, fanning out researcher subgraphs)     *)
(* -> final_report_generation.                                             *)
(*                                                                         *)
(* The graph nodes are modelled from src/src/utils.ts, the state channels  *)
(* and their reducers from src/unnamed/part_002 (the state module that     *)
(* utils.ts imports).  A node that awaits is cut at its awaits: every      *)
(* action runs the synchronous code from one await to the next.            *)
(***************************************************************************)
EXTENDS Integers, Sequences, FiniteSets, TLC

VARIABLES
    config,     \* Configuration value of the session (ConfigurationManager.getConfig())
    node,       \* position in the deep researcher graph
    agent,      \* AgentState channels
    sup,        \* SupervisorState channels and the position in the supervisor subgraph
    workers,    \* one ResearcherState (and subgraph position) per dispatched researcher
    dispatch,   \* locals of the supervisorTools invocation that awaits Promise.all
    report,     \* locals of finalReportGeneration (currentRetry, currentFindings)
    stub,       \* what the stubbed Gateway and tools may answer in this run
    trace       \* observation of the run: invocation counters and what each step used

vars == <<config, node, agent, sup, workers, dispatch, report, stub, trace>>

(***************************************************************************)
(* Bounds of the model.                                                    *)
(***************************************************************************)
MaxUnits == 2          \* maxConcurrentResearchUnits ranges over 1..MaxUnits
MaxIterations == 3     \* maxResearcherIterations ranges over 1..MaxIterations
MaxReact == 2          \* maxReactToolCalls ranges over 1..MaxReact
MaxExtraCalls == 1     \* a supervisor response carries up to maxConcurrentResearchUnits + MaxExtraCalls calls
MaxMerges == 3         \* channel updates merged in a run of SpecReducers

(***************************************************************************)
(* Messages (@langchain/core/messages).  tool_calls of an AI message is    *)
(* either absent (has_tool_calls = FALSE) or a list, possibly empty.       *)
(***************************************************************************)
Message(type, content, has, calls, name, id) ==
    [type |-> type, content |-> content, has_tool_calls |-> has,
     tool_calls |-> calls, name |-> name, tool_call_id |-> id]

SystemMessage(content) == Message("system", content, FALSE, <<>>, "", 0)
HumanMessage(content) == Message("human", content, FALSE, <<>>, "", 0)
AIMessage(content) == Message("ai", content, TRUE, <<>>, "", 0)
ToolMessage(content, name, id) == Message("tool", content, FALSE, <<>>, name, id)

\* A model response: an AI message with the tool calls the model asked for.
AIResponse(content, has, calls) == Message("ai", content, has, calls, "", 0)

ToolCall(name, id, arg) == [name |-> name, id |-> id, arg |-> arg]

(***************************************************************************)
(* Sequence helpers.                                                       *)
(***************************************************************************)
RECURSIVE SeqSum(_)
SeqSum(s) == IF s = <<>> THEN 0 ELSE Head(s) + SeqSum(Tail(s))

RECURSIVE Flatten(_)
Flatten(ss) == IF ss = <<>> THEN <<>> ELSE Head(ss) \o Flatten(Tail(ss))

Map(f(_), s) == [i \in 1..Len(s) |-> f(s[i])]

Min(a, b) == IF a <= b THEN a ELSE b
Max(a, b) == IF a >= b THEN a ELSE b

\* Variant: a slice that ignores its end.
SliceToEnd(s, from, to) == SubSeq(s, Min(from, Len(s)) + 1, Len(s))

\* Array.prototype.slice(from, to) with 0-based, end-exclusive indices.
Slice(s, from, to) == SubSeq(s, Min(from, Len(s)) + 1, Min(to, Len(s)))

(***************************************************************************)
(* Texts.  A content is a string; LongReport stands for a model output of  *)
(* LongReportLen characters (too long to spell out).                       *)
(***************************************************************************)
LongReport == "<long report>"
LongReportLen == 600000

TextLen(s) == IF s = LongReport THEN LongReportLen ELSE Len(s)

\* Array.prototype.join('\n') of strings, as the parts and the length of the result.
JoinLen(parts) ==
    IF parts = <<>> THEN 0
    ELSE SeqSum([i \in 1..Len(parts) |-> TextLen(parts[i])]) + (Len(parts) - 1)

\* String.prototype.substring(0, n) of a text of length len: the length left.
SubstringLen(len, n) == Min(len, Max(n, 0))

\* Variant: the notes are taken from the assistant messages.
getNotesFromAIMessages(messages) ==
    LET aiMessages == SelectSeq(messages, LAMBDA m : m.type = "ai")
    IN  [i \in 1..Len(aiMessages) |-> aiMessages[i].content]

(***************************************************************************)
(* utils.ts: pure helpers.                                                 *)
(***************************************************************************)
\* getNotesFromToolCalls: the contents of the tool messages, in order.
getNotesFromToolCalls(messages) ==
    LET toolMessages == SelectSeq(messages, LAMBDA m : m.type = "tool")
    IN  [i \in 1..Len(toolMessages) |-> toolMessages[i].content]

\* removeUpToLastAIMessage: the prefix before the last AI message; all of it if none.
RECURSIVE removeUpToLastAIMessageFrom(_, _)
removeUpToLastAIMessageFrom(messages, i) ==
    IF i < 1 THEN messages
    ELSE IF messages[i].type = "ai" THEN SubSeq(messages, 1, i - 1)
    ELSE removeUpToLastAIMessageFrom(messages, i - 1)

\* Variant: the cut keeps the last AI message.
removeUpToLastAIMessageKeepsIt(messages) ==
    LET cut == removeUpToLastAIMessageFrom(messages, Len(messages))
    IN  IF Len(cut) < Len(messages) THEN SubSeq(messages, 1, Len(cut) + 1) ELSE messages

removeUpToLastAIMessage(messages) == removeUpToLastAIMessageFrom(messages, Len(messages))

\* getBufferString: one "<Role>: <content>" line per message.
RolePrefix(type) ==
    CASE type = "human" -> "Human"
      [] type = "ai" -> "AI"
      [] type = "system" -> "System"
      [] type = "tool" -> "Tool"

getBufferString(messages) ==
    [i \in 1..Len(messages) |-> <<RolePrefix(messages[i].type), messages[i].content>>]

\* join('\n') of rendered transcripts: the lines of all of them, in order.
JoinLines(texts) == Flatten(texts)

\* isTokenLimitExceeded: error.toString().toLowerCase() includes one of the patterns.
\* Occurrences(error) is the set of substrings of the lower-cased error text that the
\* pattern table can match.
ContextLengthError == "Error: context_length_exceeded"
PromptTooLongError == "Error: prompt is too long"
ServiceError == "Error: 503 service unavailable"
StructuredOutputError == "Error: failed to parse structured output"

Occurrences(error) ==
    CASE error = ContextLengthError -> {"context", "length", "context_length_exceeded"}
      [] error = PromptTooLongError -> {"prompt is too long"}
      [] OTHER -> {}

tokenLimitPatterns ==
    <<"token", "context", "length", "maximum context", "reduce",
      "prompt is too long", "context_length_exceeded", "invalid_request_error">>

\* Variant: every failure is classified as a context-length failure.
isTokenLimitExceededAlways(error) == TRUE

\* Variant: a service failure is classified as a context-length failure too.
isTokenLimitExceededOrUnavailable(error) ==
    error \in {ContextLengthError, PromptTooLongError, ServiceError}

isTokenLimitExceeded(error) ==
    \E i \in 1..Len(tokenLimitPatterns) : tokenLimitPatterns[i] \in Occurrences(error)

\* MODEL_TOKEN_LIMITS and getModelTokenLimit; 0 stands for undefined (both are falsy).
MODEL_TOKEN_LIMITS ==
    [m \in {"openai:gpt-4o-mini", "openai:gpt-4o", "openai:gpt-4-turbo"} |-> 128000]
    @@ ("openai:gpt-4" :> 8192)
    @@ ("openai:gpt-3.5-turbo" :> 16385)
    @@ [m \in {"anthropic:claude-3-5-sonnet", "anthropic:claude-3-5-haiku",
               "anthropic:claude-3-opus", "anthropic:claude-3-sonnet",
               "anthropic:claude-3-haiku"} |-> 200000]
    @@ ("google:gemini-1.5-pro" :> 2097152)
    @@ ("google:gemini-1.5-flash" :> 1048576)

getModelTokenLimit(modelString) ==
    IF modelString \in DOMAIN MODEL_TOKEN_LIMITS THEN MODEL_TOKEN_LIMITS[modelString] ELSE 0

(***************************************************************************)
(* State channels and reducers (part_002).                                 *)
(***************************************************************************)
\* An update of an override channel: the plain new value, or {type: 'override', value}.
Plain(v) == [type |-> "plain", hasValue |-> TRUE, value |-> v]
Override(v) == [type |-> "override", hasValue |-> TRUE, value |-> v]

\* Variant: the channel keeps its old value.
overrideReducerKeeps(currentValue, newValue) == currentValue

\* overrideReducer: newValue.value for a tagged update with a value, else newValue.
overrideReducer(currentValue, newValue) ==
    IF newValue.type = "override"
    THEN IF newValue.hasValue THEN newValue.value ELSE newValue
    ELSE newValue.value

\* Variant: the new value replaces the list.
concatReducerReplaces(currentValue, newValue) == newValue

\* Variant: the update is put in front of the current list.
concatReducerPrepends(currentValue, newValue) == newValue \o currentValue

\* concatReducer: currentValue.concat(newValue) (both are arrays at every update).
concatReducer(currentValue, newValue) == currentValue \o newValue

\* MessagesAnnotation: new messages (fresh ids) are appended to the thread.
messagesStateReducer(left, right) == left \o right

\* AgentStateAnnotation defaults, with the session's input thread.
UserQuestion == "user question"

AgentStateDefault ==
    [messages |-> <<HumanMessage(UserQuestion)>>,
     supervisorMessages |-> <<>>,
     researchBrief |-> "",
     rawNotes |-> <<>>,
     notes |-> <<>>,
     finalReport |-> ""]

\* SupervisorStateAnnotation defaults; node is the position in the subgraph.
SupervisorStateDefault ==
    [node |-> "idle",
     supervisorMessages |-> <<>>,
     researchBrief |-> "",
     notes |-> <<>>,
     researchIterations |-> 0,
     rawNotes |-> <<>>]

\* ResearcherStateAnnotation defaults; node is the position in the subgraph,
\* compressMessages and synthesisAttempts are the locals of compressResearch
\* (compressStarted: the loop has been entered), compressOutcomes observes its
\* Gateway invocations ("ok", or the error the invocation failed with).
ResearcherStateDefault ==
    [node |-> "idle",
     researcherMessages |-> <<>>,
     toolCallIterations |-> 0,
     researchTopic |-> "",
     compressedResearch |-> "",
     rawNotes |-> <<>>,
     compressStarted |-> FALSE,
     compressMessages |-> <<>>,
     synthesisAttempts |-> 0,
     compressOutcomes |-> <<>>]

Slots == 1..MaxUnits

\* completed observes the order in which the researchers of the dispatch return.
NoDispatch ==
    [conductResearchCalls |-> <<>>, overflowConductResearchCalls |-> <<>>,
     completed |-> <<>>]

ReportDefault == [started |-> FALSE, currentRetry |-> 0, currentFindings |-> 0]

TraceDefault ==
    [supervisorRuns |-> 0,        \* executions of the supervisor node
     alwaysResearch |-> TRUE,     \* so far every supervisor response asked for research
                                  \* only, and every researcher returned
     reportOutcomes |-> <<>>,     \* per Gateway invocation of finalReportGeneration:
                                  \* "ok", or the error it failed with
     findingsUsed |-> <<>>,       \* findings length each of those invocations used
     reportOutput |-> "",         \* raw output of the Gateway invocation that succeeded
     toolResults |-> <<>>,        \* text of every ToolMessage supervisorTools has built
     outOfOrderJoin |-> FALSE,    \* a dispatch was joined whose researchers had returned
                                  \* in another order than the order of their calls
     inputSupervisorMessages |-> <<>>,  \* supervisorMessages of the session's input state
     dispatchCycles |-> 0,        \* executions of supervisorTools that reached the fan-out
     updates |-> <<>>,            \* SpecReducers: the channel updates merged so far
     raised |-> ""]               \* the node whose failure reached the session caller

(***************************************************************************)
(* Configuration (ConfigurationSchema): fixed for the session.             *)
(***************************************************************************)
FinalReportModels == {"openai:gpt-4o", "openai:gpt-4", "deepseek:deepseek-chat"}

\* Prompts: the parts the nodes substitute into them.
leadResearcherPrompt(units) == "lead researcher prompt, units=" \o ToString(units)
researchSystemPrompt == "research system prompt"
compressResearchSystemPrompt == "compress research system prompt"
compressResearchSimpleHumanMessage == "summarize now"

(***************************************************************************)
(* Gateway outcomes.                                                       *)
(***************************************************************************)
Ok(value) == [ok |-> TRUE, value |-> value, error |-> ""]
Failed(value, error) == [ok |-> FALSE, value |-> value, error |-> error]

ClarifyResponse(need) ==
    [needClarification |-> need, question |-> "clarifying question",
     verification |-> "verification"]

ClarifyOutcomes ==
    {Ok(ClarifyResponse(need)) : need \in BOOLEAN}
    \cup {Failed(ClarifyResponse(FALSE), StructuredOutputError)}

BriefOutcomes ==
    {Ok([researchBrief |-> "research brief"]),
     Failed([researchBrief |-> ""], StructuredOutputError)}

(***************************************************************************)
(* clarify_with_user                                                       *)
(***************************************************************************)
\* Variant: the rejection is caught and the session ends normally.
RaiseCaught(name) ==
    /\ node' = "END"
    /\ trace' = [trace EXCEPT !.raised = name]

\* A rejection that the node does not catch: deepResearcherAgent.invoke rejects.
Raise(name) ==
    /\ node' = "FAILED"
    /\ trace' = [trace EXCEPT !.raised = name]

\* Variant: the model is asked whether clarification is allowed or not.
clarifyWithUserAlwaysAsks ==
    /\ node = "clarify_with_user"
    /\ \E outcome \in ClarifyOutcomes :
         IF ~outcome.ok
         THEN Raise("clarify_with_user") /\ UNCHANGED agent
         ELSE LET response == outcome.value
              IN  /\ UNCHANGED trace
                  /\ IF response.needClarification
                     THEN /\ node' = "END"
                          /\ agent' = [agent EXCEPT !.messages =
                                messagesStateReducer(@, <<AIMessage(response.question)>>)]
                     ELSE /\ node' = "write_research_brief"
                          /\ agent' = [agent EXCEPT !.messages =
                                messagesStateReducer(@, <<AIMessage(response.verification)>>)]
    /\ UNCHANGED <<config, sup, workers, dispatch, report, stub>>

\* Variant: the question is appended and the session goes on to the brief.
clarifyWithUserGoesOn ==
    /\ node = "clarify_with_user"
    /\ IF ~config.allowClarification
       THEN /\ node' = "write_research_brief"
            /\ UNCHANGED <<agent, trace>>
       ELSE \E outcome \in ClarifyOutcomes :
              IF ~outcome.ok
              THEN Raise("clarify_with_user") /\ UNCHANGED agent
              ELSE LET response == outcome.value
                   IN  /\ UNCHANGED trace
                       /\ node' = "write_research_brief"
                       /\ agent' = [agent EXCEPT !.messages =
                             messagesStateReducer(@, <<AIMessage(
                                 IF response.needClarification
                                 THEN response.question ELSE response.verification)>>)]
    /\ UNCHANGED <<config, sup, workers, dispatch, report, stub>>

clarifyWithUser ==
    /\ node = "clarify_with_user"
    /\ IF ~config.allowClarification
       THEN /\ node' = "write_research_brief"
            /\ UNCHANGED <<agent, trace>>
       ELSE \E outcome \in ClarifyOutcomes :
              IF ~outcome.ok
              THEN Raise("clarify_with_user") /\ UNCHANGED agent
              ELSE LET response == outcome.value
                   IN  /\ UNCHANGED trace
                       /\ IF response.needClarification
                          THEN /\ node' = "END"
                               /\ agent' = [agent EXCEPT !.messages =
                                     messagesStateReducer(@, <<AIMessage(response.question)>>)]
                          ELSE /\ node' = "write_research_brief"
                               /\ agent' = [agent EXCEPT !.messages =
                                     messagesStateReducer(@, <<AIMessage(response.verification)>>)]
    /\ UNCHANGED <<config, sup, workers, dispatch, report, stub>>

(***************************************************************************)
(* write_research_brief                                                    *)
(***************************************************************************)
\* Variant: the seed is appended to the supervisor thread.
writeResearchBriefAppends ==
    /\ node = "write_research_brief"
    /\ \E outcome \in BriefOutcomes :
         IF ~outcome.ok
         THEN Raise("write_research_brief") /\ UNCHANGED agent
         ELSE LET response == outcome.value
              IN  /\ node' = "research_supervisor"
                  /\ UNCHANGED trace
                  /\ agent' = [agent EXCEPT
                        !.researchBrief = response.researchBrief,
                        !.supervisorMessages = @ \o
                            <<SystemMessage(leadResearcherPrompt(config.maxConcurrentResearchUnits)),
                              HumanMessage(response.researchBrief)>>]
    /\ UNCHANGED <<config, sup, workers, dispatch, report, stub>>

writeResearchBrief ==
    /\ node = "write_research_brief"
    /\ \E outcome \in BriefOutcomes :
         IF ~outcome.ok
         THEN Raise("write_research_brief") /\ UNCHANGED agent
         ELSE LET response == outcome.value
              IN  /\ node' = "research_supervisor"
                  /\ UNCHANGED trace
                  /\ agent' = [agent EXCEPT
                        !.researchBrief = response.researchBrief,
                        !.supervisorMessages = overrideReducer(@, Plain(
                            <<SystemMessage(leadResearcherPrompt(config.maxConcurrentResearchUnits)),
                              HumanMessage(response.researchBrief)>>))]
    /\ UNCHANGED <<config, sup, workers, dispatch, report, stub>>

(***************************************************************************)
(* research_supervisor: the supervisor subgraph as a node of the main      *)
(* graph.  Its input are the parent's channels, its output is merged into  *)
(* the parent through the parent's reducers.                               *)
(***************************************************************************)
researchSupervisorStart ==
    /\ node = "research_supervisor"
    /\ sup.node = "idle"
    /\ sup' = [SupervisorStateDefault EXCEPT
          !.node = "supervisor",
          !.supervisorMessages = overrideReducer(@, Plain(agent.supervisorMessages)),
          !.researchBrief = overrideReducer(@, Plain(agent.researchBrief)),
          !.notes = concatReducer(@, agent.notes),
          !.rawNotes = concatReducer(@, agent.rawNotes)]
    /\ UNCHANGED <<config, node, agent, workers, dispatch, report, stub, trace>>

researchSupervisorEnd ==
    /\ node = "research_supervisor"
    /\ sup.node = "END"
    /\ agent' = [agent EXCEPT
          !.supervisorMessages = overrideReducer(@, Plain(sup.supervisorMessages)),
          !.researchBrief = overrideReducer(@, Plain(sup.researchBrief)),
          !.notes = concatReducer(@, sup.notes),
          !.rawNotes = concatReducer(@, sup.rawNotes)]
    /\ node' = "final_report_generation"
    /\ UNCHANGED <<config, sup, workers, dispatch, report, stub, trace>>

(***************************************************************************)
(* supervisor                                                              *)
(***************************************************************************)
Topic(i) == "topic " \o ToString(i)

\* The tool calls of the k-th supervisor response, from the names the model chose.
SupervisorCalls(names, k) ==
    [i \in 1..Len(names) |->
        ToolCall(names[i], 10 * k + i,
                 IF names[i] = "ConductResearch" THEN Topic(i) ELSE "")]

SupervisorOutcomes(k) ==
    {Ok(AIResponse("plan", r.has, SupervisorCalls(r.names, k))) : r \in stub.supervisorResponses}
    \cup {Failed(AIMessage(""), e) : e \in stub.supervisorErrors}

\* The response asks for research: at least one ConductResearch, no ResearchComplete.
ResearchOnly(response) ==
    /\ response.has_tool_calls
    /\ \E i \in 1..Len(response.tool_calls) : response.tool_calls[i].name = "ConductResearch"
    /\ \A i \in 1..Len(response.tool_calls) : response.tool_calls[i].name # "ResearchComplete"

supervisor ==
    /\ node = "research_supervisor"
    /\ sup.node = "supervisor"
    /\ LET supervisorMessages == sup.supervisorMessages
       IN  \E outcome \in SupervisorOutcomes(sup.researchIterations + 1) :
             IF ~outcome.ok
             THEN /\ sup' = [sup EXCEPT !.node = "FAILED"]
                  /\ node' = "FAILED"
                  /\ trace' = [trace EXCEPT !.raised = "supervisor",
                                            !.supervisorRuns = @ + 1,
                                            !.alwaysResearch = FALSE]
             ELSE /\ sup' = [sup EXCEPT
                        !.node = "supervisor_tools",
                        !.supervisorMessages =
                            overrideReducer(@, Plain(supervisorMessages \o <<outcome.value>>)),
                        !.researchIterations = overrideReducer(@, Plain(sup.researchIterations + 1))]
                  /\ node' = node
                  /\ trace' = [trace EXCEPT
                        !.supervisorRuns = @ + 1,
                        !.alwaysResearch = @ /\ ResearchOnly(outcome.value)]
    /\ UNCHANGED <<config, agent, workers, dispatch, report, stub>>

(***************************************************************************)
(* supervisor_tools, up to `await Promise.all(researchPromises)`           *)
(***************************************************************************)
ResearchCompleteMessage(toolCall) ==
    ToolMessage("Research completed successfully.", "ResearchComplete", toolCall.id)

OverflowText(units) ==
    "Error: Did not run this research as you have already exceeded the maximum number of concurrent research units. Please try again with "
    \o ToString(units) \o " or fewer research units."

\* Variant: the overflow answer loses its call id.
OverflowMessageWrongId(toolCall) ==
    ToolMessage(OverflowText(config.maxConcurrentResearchUnits), "ConductResearch", 0)

OverflowMessage(toolCall) ==
    ToolMessage(OverflowText(config.maxConcurrentResearchUnits), "ConductResearch", toolCall.id)

\* Variant: the input thread carries the topic only.
ResearcherStartTopicOnly(toolCall) ==
    [ResearcherStateDefault EXCEPT
        !.node = "researcher",
        !.researcherMessages = concatReducer(@, <<HumanMessage(toolCall.arg)>>),
        !.researchTopic = overrideReducer(@, Plain(toolCall.arg))]

\* researcherSubgraph.invoke(input): the researcher state after the input is merged.
ResearcherStart(toolCall) ==
    [ResearcherStateDefault EXCEPT
        !.node = "researcher",
        !.researcherMessages = concatReducer(@,
            <<SystemMessage(researchSystemPrompt), HumanMessage(toolCall.arg)>>),
        !.researchTopic = overrideReducer(@, Plain(toolCall.arg))]

\* Variant: the iteration guardrail compares with > instead of >=.
SupervisorExitsLate(state) ==
    LET supervisorMessages == state.supervisorMessages
        mostRecentMessage == supervisorMessages[Len(supervisorMessages)]
    IN  \/ state.researchIterations > config.maxResearcherIterations
        \/ Len(supervisorMessages) = 0
        \/ ~mostRecentMessage.has_tool_calls
        \/ Len(mostRecentMessage.tool_calls) = 0

\* The first exit: the iteration guardrail, or no tool call in the latest message.
SupervisorExits(state) ==
    LET supervisorMessages == state.supervisorMessages
        hasMostRecent == Len(supervisorMessages) > 0
        mostRecentMessage == supervisorMessages[Len(supervisorMessages)]
        exceededIterations == state.researchIterations >= config.maxResearcherIterations
        noToolCalls == \/ ~hasMostRecent
                       \/ ~mostRecentMessage.has_tool_calls
                       \/ Len(mostRecentMessage.tool_calls) = 0
    IN  exceededIterations \/ noToolCalls

supervisorTools ==
    /\ node = "research_supervisor"
    /\ sup.node = "supervisor_tools"
    /\ LET supervisorMessages == sup.supervisorMessages
           mostRecentMessage == supervisorMessages[Len(supervisorMessages)]
           toolCalls == mostRecentMessage.tool_calls
           researchCompleteToolCall ==
               \E i \in 1..Len(toolCalls) : toolCalls[i].name = "ResearchComplete"
           onlyOneToolCall == Len(toolCalls) = 1
           allConductResearchCalls ==
               SelectSeq(toolCalls, LAMBDA c : c.name = "ConductResearch")
           conductResearchCalls ==
               Slice(allConductResearchCalls, 0, config.maxConcurrentResearchUnits)
           overflowConductResearchCalls ==
               Slice(allConductResearchCalls, config.maxConcurrentResearchUnits,
                     Len(allConductResearchCalls))
       IN  IF SupervisorExits(sup)
           THEN /\ sup' = [sup EXCEPT
                      !.node = "END",
                      !.notes = concatReducer(@, getNotesFromToolCalls(supervisorMessages)),
                      !.researchBrief = overrideReducer(@, Plain(sup.researchBrief))]
                /\ UNCHANGED <<workers, dispatch, trace>>
           ELSE IF researchCompleteToolCall /\ onlyOneToolCall
           THEN LET researchCompleteMessage == ResearchCompleteMessage(toolCalls[1])
                IN  /\ sup' = [sup EXCEPT
                          !.node = "END",
                          !.supervisorMessages =
                              overrideReducer(@, Plain(<<researchCompleteMessage>>)),
                          !.notes = concatReducer(@, getNotesFromToolCalls(
                              supervisorMessages \o <<researchCompleteMessage>>)),
                          !.researchBrief = overrideReducer(@, Plain(sup.researchBrief))]
                    /\ trace' = [trace EXCEPT !.toolResults =
                          @ \o <<researchCompleteMessage.content>>]
                    /\ UNCHANGED <<workers, dispatch>>
           ELSE /\ sup' = [sup EXCEPT !.node = "awaiting"]
                /\ workers' = [w \in Slots |->
                      IF w <= Len(conductResearchCalls)
                      THEN ResearcherStart(conductResearchCalls[w])
                      ELSE workers[w]]
                /\ dispatch' = [conductResearchCalls |-> conductResearchCalls,
                                overflowConductResearchCalls |-> overflowConductResearchCalls,
                                completed |-> <<>>]
                /\ trace' = [trace EXCEPT !.dispatchCycles = @ + 1]
    /\ UNCHANGED <<config, node, agent, report, stub>>

(***************************************************************************)
(* supervisor_tools, after `await Promise.all(researchPromises)`:          *)
(* Promise.all fulfils once every researcher has returned, and rejects as  *)
(* soon as one researcher has thrown.                                      *)
(***************************************************************************)
Dispatched == 1..Len(dispatch.conductResearchCalls)

ErrorSynthesizing == "Error synthesizing research report: Maximum retries exceeded"

\* Variant: the result is not keyed by the call id.
ResearchToolMessageNoId(observation, toolCall) ==
    ToolMessage(IF observation.compressedResearch # ""
                THEN observation.compressedResearch
                ELSE "Error synthesizing research report: Maximum retries exceeded",
                toolCall.name, 0)

\* Variant: the content is compressedResearch with no fallback.
ResearchToolMessageNoFallback(observation, toolCall) ==
    ToolMessage(observation.compressedResearch, toolCall.name, toolCall.id)

\* observation.compressedResearch || "Error synthesizing ..."
ResearchToolMessage(observation, toolCall) ==
    ToolMessage(IF observation.compressedResearch # ""
                THEN observation.compressedResearch
                ELSE ErrorSynthesizing,
                toolCall.name, toolCall.id)

\* Variant: the values in the order in which the researchers returned.
PromiseAllValuesByCompletion == [i \in Dispatched |-> workers[dispatch.completed[i]]]

\* The value of a fulfilled Promise.all: the researchers' final states, in the
\* order of researchPromises.
PromiseAllValues == [w \in Dispatched |-> workers[w]]

PromiseAllRejected == \E w \in Dispatched : workers[w].node = "FAILED"
PromiseAllFulfilled == \A w \in Dispatched : workers[w].node = "END"

supervisorToolsJoin ==
    /\ node = "research_supervisor"
    /\ sup.node = "awaiting"
    /\ \/ /\ PromiseAllRejected
          /\ sup' = [sup EXCEPT !.node = "FAILED"]
          /\ node' = "FAILED"
          /\ trace' = [trace EXCEPT !.raised = "supervisor_tools",
                                    !.alwaysResearch = FALSE]
          /\ UNCHANGED <<workers, dispatch>>
       \/ /\ PromiseAllFulfilled
          /\ LET supervisorMessages == sup.supervisorMessages
                 mostRecentMessage == supervisorMessages[Len(supervisorMessages)]
                 conductResearchCalls == dispatch.conductResearchCalls
                 toolResults == PromiseAllValues
                 toolMessages ==
                     [i \in 1..Len(toolResults) |->
                         ResearchToolMessage(toolResults[i], conductResearchCalls[i])]
                     \o [i \in 1..Len(dispatch.overflowConductResearchCalls) |->
                         OverflowMessage(dispatch.overflowConductResearchCalls[i])]
                 rawNotesConcat ==
                     JoinLines([i \in 1..Len(toolResults) |-> JoinLines(toolResults[i].rawNotes)])
                 researchCompleteToolCalls ==
                     SelectSeq(mostRecentMessage.tool_calls, LAMBDA c : c.name = "ResearchComplete")
                 researchCompleteMessages ==
                     [i \in 1..Len(researchCompleteToolCalls) |->
                         ResearchCompleteMessage(researchCompleteToolCalls[i])]
                 allToolMessages == toolMessages \o researchCompleteMessages
             IN  /\ trace' = [trace EXCEPT
                       !.toolResults =
                           @ \o [i \in 1..Len(allToolMessages) |-> allToolMessages[i].content],
                       !.outOfOrderJoin =
                           @ \/ dispatch.completed # [i \in Dispatched |-> i]]
                 /\ IF Len(researchCompleteMessages) > 0
                    THEN sup' = [sup EXCEPT
                         !.node = "END",
                         !.supervisorMessages = overrideReducer(@, Plain(allToolMessages)),
                         !.notes = concatReducer(@, getNotesFromToolCalls(
                             supervisorMessages \o allToolMessages)),
                         !.researchBrief = overrideReducer(@, Plain(sup.researchBrief))]
                    ELSE sup' = [sup EXCEPT
                         !.node = "supervisor",
                         !.supervisorMessages = overrideReducer(@, Plain(allToolMessages)),
                         !.rawNotes = concatReducer(@, <<rawNotesConcat>>)]
          /\ workers' = [w \in Slots |-> ResearcherStateDefault]
          /\ dispatch' = NoDispatch
          /\ UNCHANGED node
    /\ UNCHANGED <<config, agent, report, stub>>

(***************************************************************************)
(* researcher                                                              *)
(***************************************************************************)
\* The tool calls of the k-th researcher response, from the names the model chose.
ResearcherCalls(names, k) ==
    [i \in 1..Len(names) |-> ToolCall(names[i], 10 * k + i, "")]

ResearcherOutcomes(k) ==
    {Ok(AIResponse("thought", r.has, ResearcherCalls(r.names, k))) : r \in stub.researcherResponses}
    \cup {Failed(AIMessage(""), e) : e \in stub.researcherErrors}

researcher(w) ==
    /\ workers[w].node = "researcher"
    /\ LET state == workers[w]
           researcherMessages == state.researcherMessages
       IN  \E outcome \in ResearcherOutcomes(state.toolCallIterations + 1) :
             IF ~outcome.ok
             THEN workers' = [workers EXCEPT ![w].node = "FAILED"]
             ELSE workers' = [workers EXCEPT
                     ![w].node = "researcher_tools",
                     ![w].researcherMessages =
                         concatReducer(@, researcherMessages \o <<outcome.value>>),
                     ![w].toolCallIterations =
                         overrideReducer(@, Plain(state.toolCallIterations + 1))]
    /\ UNCHANGED <<config, node, agent, sup, dispatch, report, stub, trace>>

(***************************************************************************)
(* researcher_tools                                                        *)
(***************************************************************************)
\* getAllTools: the completion signal, and the search tool when it is configured.
ToolNames == {"ResearchComplete", "tavily_search"}

ToolOutput(name) ==
    IF name = "ResearchComplete" THEN "Research marked as complete" ELSE "Search results"

\* Variant: the error answer of a tool that threw loses its call id.
ExecuteToolLosesId(toolCall, threw) ==
    IF toolCall.name \in ToolNames
    THEN IF threw
         THEN ToolMessage("Error executing tool " \o toolCall.name \o ": " \o ServiceError,
                          toolCall.name, 0)
         ELSE ToolMessage(ToolOutput(toolCall.name), toolCall.name, toolCall.id)
    ELSE ToolMessage("Tool " \o toolCall.name \o " not found", toolCall.name, toolCall.id)

\* One tool call of the batch: its ToolMessage, by what the tool did (returned / threw).
ExecuteTool(toolCall, threw) ==
    IF toolCall.name \in ToolNames
    THEN IF threw
         THEN ToolMessage("Error executing tool " \o toolCall.name \o ": " \o ServiceError,
                          toolCall.name, toolCall.id)
         ELSE ToolMessage(ToolOutput(toolCall.name), toolCall.name, toolCall.id)
    ELSE ToolMessage("Tool " \o toolCall.name \o " not found", toolCall.name, toolCall.id)

\* The guardrail of the late exit.
ExceededToolCalls(state) == state.toolCallIterations >= config.maxResearcherIterations

researcherTools(w) ==
    /\ workers[w].node = "researcher_tools"
    /\ LET state == workers[w]
           researcherMessages == state.researcherMessages
           hasMostRecent == Len(researcherMessages) > 0
           mostRecentMessage == researcherMessages[Len(researcherMessages)]
           toolCalls == mostRecentMessage.tool_calls
           researchCompleteToolCall ==
               \E i \in 1..Len(toolCalls) : toolCalls[i].name = "ResearchComplete"
       IN  IF ~hasMostRecent \/ ~mostRecentMessage.has_tool_calls
           THEN workers' = [workers EXCEPT ![w].node = "compress_research"]
           ELSE \E threw \in [1..Len(toolCalls) -> stub.toolThrows] :
                  LET toolOutputs == [i \in 1..Len(toolCalls) |->
                                         ExecuteTool(toolCalls[i], threw[i])]
                  IN  workers' = [workers EXCEPT
                         ![w].node = IF ExceededToolCalls(state) \/ researchCompleteToolCall
                                     THEN "compress_research"
                                     ELSE "researcher",
                         ![w].researcherMessages = concatReducer(@, toolOutputs)]
    /\ UNCHANGED <<config, node, agent, sup, dispatch, report, stub, trace>>

(***************************************************************************)
(* compress_research: one action per Gateway attempt of the retry loop.    *)
(***************************************************************************)
\* Variant: one more attempt.
maxAttemptsOneMore == 3 + 1

maxAttempts == 3

\* A model output: "summary" stands for a summary of the researcher's topic.
ModelText(t, topic) == IF t = "summary" THEN "summary of " \o topic ELSE t

CompressOutcomes(topic) ==
    {Ok(AIMessage(ModelText(t, topic))) : t \in stub.compressTexts}
    \cup {Failed(AIMessage(""), e) : e \in stub.compressErrors}

\* The transcript the loop starts from: the system message swapped, the instruction pushed.
CompressionTranscript(researcherMessages) ==
    (IF Len(researcherMessages) > 0
     THEN [researcherMessages EXCEPT ![1] = SystemMessage(compressResearchSystemPrompt)]
     ELSE researcherMessages)
    \o <<HumanMessage(compressResearchSimpleHumanMessage)>>

\* Variant: the return value carries no rawNotes.
CompressReturnNoNotes(state, compressedResearch, transcript) ==
    [state EXCEPT
        !.node = "END",
        !.compressedResearch = overrideReducer(@, Plain(compressedResearch))]

\* The return value of compressResearch merged into the researcher state.
CompressReturn(state, compressedResearch, transcript) ==
    [state EXCEPT
        !.node = "END",
        !.compressedResearch = overrideReducer(@, Plain(compressedResearch)),
        !.rawNotes = concatReducer(@, <<getBufferString(transcript)>>)]

compressResearch(w) ==
    /\ workers[w].node = "compress_research"
    /\ LET state == workers[w]
           researcherMessages ==
               IF state.compressStarted THEN state.compressMessages
               ELSE CompressionTranscript(state.researcherMessages)
           synthesisAttempts == state.synthesisAttempts
       IN  \E outcome \in CompressOutcomes(state.researchTopic) :
             IF outcome.ok
             THEN workers' = [workers EXCEPT ![w] =
                     CompressReturn([state EXCEPT !.compressStarted = TRUE,
                                                  !.compressMessages = researcherMessages,
                                                  !.compressOutcomes = Append(@, "ok")],
                                    outcome.value.content, researcherMessages)]
             ELSE LET pruned == IF isTokenLimitExceeded(outcome.error)
                                THEN removeUpToLastAIMessage(researcherMessages)
                                ELSE researcherMessages
                      next == [state EXCEPT !.compressStarted = TRUE,
                                            !.compressMessages = pruned,
                                            !.synthesisAttempts = synthesisAttempts + 1,
                                            !.compressOutcomes = Append(@, outcome.error)]
                  IN  IF isTokenLimitExceeded(outcome.error)
                         /\ synthesisAttempts + 1 < maxAttempts
                      THEN workers' = [workers EXCEPT ![w] = next]
                      ELSE workers' = [workers EXCEPT ![w] =
                              CompressReturn(next, ErrorSynthesizing, pruned)]
    /\ dispatch' = IF workers'[w].node = "END"
                   THEN [dispatch EXCEPT !.completed = Append(@, w)]
                   ELSE dispatch
    /\ UNCHANGED <<config, node, agent, sup, report, stub, trace>>

(***************************************************************************)
(* final_report_generation: one action per Gateway attempt of the retry    *)
(* loop.  currentFindings is kept as its length: it is always a prefix of  *)
(* notes.join('\n').                                                       *)
(***************************************************************************)
\* Variant: one more retry.
maxRetriesOneMore == 3 + 1

maxRetries == 3

ReportOutcomes ==
    {Ok(AIMessage(t)) : t \in stub.reportTexts}
    \cup {Failed(AIMessage(""), e) : e \in stub.reportErrors}

\* Variant: no shrinking.
NinetyPercentKept(length) == length

\* Math.floor(length * 0.9)
NinetyPercent(length) == (9 * length) \div 10

\* Variant: the first budget is the token limit itself, not 4 characters per token.
findingsTokenLimitUnscaled(currentRetry, modelTokenLimit, currentFindings) ==
    IF currentRetry = 0 THEN modelTokenLimit ELSE (9 * currentFindings) \div 10

\* The findings budget of the retry that follows a context-length failure.
findingsTokenLimit(currentRetry, modelTokenLimit, currentFindings) ==
    IF currentRetry = 0 THEN modelTokenLimit * 4 ELSE NinetyPercent(currentFindings)

\* Variant: the update carries no finalReport.
ReportReturnUnset(state, finalReport, newMessages) ==
    [state EXCEPT
        !.messages = messagesStateReducer(@, newMessages),
        !.notes = concatReducer(@, <<>>)]

\* A Command({goto: END, update}) of finalReportGeneration merged into the agent state.
ReportReturn(state, finalReport, newMessages) ==
    [state EXCEPT
        !.finalReport = overrideReducer(@, Plain(finalReport)),
        !.messages = messagesStateReducer(@, newMessages),
        !.notes = concatReducer(@, <<>>)]

finalReportGeneration ==
    /\ node = "final_report_generation"
    /\ LET notes == agent.notes
           findings == JoinLen(notes)
           currentRetry == IF report.started THEN report.currentRetry ELSE 0
           currentFindings == IF report.started THEN report.currentFindings ELSE findings
       IN  \E outcome \in ReportOutcomes :
             LET invoked == [trace EXCEPT
                     !.reportOutcomes = Append(@, IF outcome.ok THEN "ok" ELSE outcome.error),
                     !.findingsUsed = Append(@, currentFindings)]
             IN
             IF outcome.ok
             THEN /\ agent' = ReportReturn(agent, outcome.value.content, <<outcome.value>>)
                  /\ node' = "END"
                  /\ report' = [started |-> TRUE, currentRetry |-> currentRetry,
                                currentFindings |-> currentFindings]
                  /\ trace' = [invoked EXCEPT !.reportOutput = outcome.value.content]
             ELSE LET modelTokenLimit == getModelTokenLimit(config.finalReportModel)
                  IN  IF isTokenLimitExceeded(outcome.error) /\ modelTokenLimit # 0
                      THEN LET limit == findingsTokenLimit(currentRetry, modelTokenLimit,
                                                           currentFindings)
                               truncated == SubstringLen(currentFindings, limit)
                           IN  /\ report' = [started |-> TRUE,
                                             currentRetry |-> currentRetry + 1,
                                             currentFindings |-> truncated]
                               /\ trace' = invoked
                               /\ IF currentRetry + 1 <= maxRetries
                                  THEN UNCHANGED <<agent, node>>
                                  ELSE /\ agent' = ReportReturn(agent,
                                             "Error generating final report: Maximum retries exceeded",
                                             <<>>)
                                       /\ node' = "END"
                      ELSE /\ agent' = ReportReturn(agent,
                                 "Error generating final report: " \o outcome.error, <<>>)
                           /\ node' = "END"
                           /\ report' = [started |-> TRUE, currentRetry |-> currentRetry,
                                         currentFindings |-> currentFindings]
                           /\ trace' = invoked
    /\ UNCHANGED <<config, sup, workers, dispatch, stub>>

(***************************************************************************)
(* Stubbed Gateway and tools: what they may answer in a run.               *)
(***************************************************************************)
\* All lists of at most n names.
NameLists(names, n) == UNION {[1..k -> names] : k \in 0..n}

Response(has, names) == [has |-> has, names |-> names]

\* A session: every supervisor answer with up to maxConcurrentResearchUnits +
\* MaxExtraCalls calls; researchers that answer without tool calls or with the
\* completion signal, and whose compression succeeds or fails at once; a report
\* synthesis that succeeds or fails at once.
SessionStub(cfg) ==
    [supervisorResponses |->
        {Response(FALSE, <<>>)}
        \cup {Response(TRUE, names) :
                names \in NameLists({"ConductResearch", "ResearchComplete"},
                                    cfg.maxConcurrentResearchUnits + MaxExtraCalls)},
     supervisorErrors |-> {ServiceError},
     researcherResponses |-> {Response(FALSE, <<>>), Response(TRUE, <<"ResearchComplete">>)},
     researcherErrors |-> {ServiceError},
     toolThrows |-> {FALSE},
     compressTexts |-> {"", "summary"},
     compressErrors |-> {ServiceError},
     reportTexts |-> {"final report"},
     reportErrors |-> {ServiceError}]

Configuration(allowClarification, units, iterations) ==
    [allowClarification |-> allowClarification,
     maxConcurrentResearchUnits |-> units,
     maxResearcherIterations |-> iterations,
     maxReactToolCalls |-> 5,
     finalReportModel |-> "openai:gpt-4o"]

\* The configurations of a session: concurrent researchers in one dispatch cycle,
\* and one researcher at a time over several cycles.
SessionConfigurations ==
    {Configuration(TRUE, units, 2) : units \in 2..MaxUnits}
    \cup {Configuration(TRUE, 1, iterations) : iterations \in 1..MaxIterations}
    \cup {Configuration(FALSE, 1, 1)}

(***************************************************************************)
(* The session: deepResearcherAgent.invoke({messages: [question]}).        *)
(***************************************************************************)
Init ==
    /\ config \in SessionConfigurations
    /\ node = "clarify_with_user"
    /\ agent = AgentStateDefault
    /\ sup = SupervisorStateDefault
    /\ workers = [w \in Slots |-> ResearcherStateDefault]
    /\ dispatch = NoDispatch
    /\ report = ReportDefault
    /\ stub = SessionStub(config)
    /\ trace = TraceDefault

Next ==
    \/ clarifyWithUser
    \/ writeResearchBrief
    \/ researchSupervisorStart
    \/ supervisor
    \/ supervisorTools
    \/ supervisorToolsJoin
    \/ researchSupervisorEnd
    \/ \E w \in Slots : researcher(w)
    \/ \E w \in Slots : researcherTools(w)
    \/ \E w \in Slots : compressResearch(w)
    \/ finalReportGeneration

Spec == Init /\ [][Next]_vars

FairSpec == Spec /\ WF_vars(Next)

(***************************************************************************)
(* One researcher under every answer of its model and tools: the session   *)
(* dispatches a single researcher and ends after it.                       *)
(***************************************************************************)
ResearcherStub ==
    [supervisorResponses |-> {Response(TRUE, <<"ConductResearch", "ResearchComplete">>)},
     supervisorErrors |-> {},
     researcherResponses |->
        {Response(FALSE, <<>>),
         Response(TRUE, <<>>),
         Response(TRUE, <<"tavily_search">>),
         Response(TRUE, <<"ResearchComplete">>),
         Response(TRUE, <<"tavily_search", "unknown_tool">>),
         Response(TRUE, <<"tavily_search", "ResearchComplete">>)},
     researcherErrors |-> {ServiceError},
     toolThrows |-> BOOLEAN,
     compressTexts |-> {"", "summary"},
     compressErrors |-> {ContextLengthError, ServiceError},
     reportTexts |-> {"final report"},
     reportErrors |-> {ServiceError}]

ResearcherConfigurations ==
    {[Configuration(FALSE, 1, iterations) EXCEPT !.maxReactToolCalls = react] :
        iterations \in 1..MaxIterations, react \in 1..MaxReact}

InitResearcher ==
    /\ config \in ResearcherConfigurations
    /\ node = "clarify_with_user"
    /\ agent = AgentStateDefault
    /\ sup = SupervisorStateDefault
    /\ workers = [w \in Slots |-> ResearcherStateDefault]
    /\ dispatch = NoDispatch
    /\ report = ReportDefault
    /\ stub = ResearcherStub
    /\ trace = TraceDefault

SpecResearcher == InitResearcher /\ [][Next]_vars

(***************************************************************************)
(* Report synthesis under every Gateway answer, for findings of every      *)
(* size: the researchers return an empty, a short or a long report.        *)
(***************************************************************************)
ReportStub ==
    [supervisorResponses |->
        {Response(TRUE, <<>>),
         Response(TRUE, <<"ConductResearch">>),
         Response(TRUE, <<"ConductResearch", "ConductResearch">>)},
     supervisorErrors |-> {},
     researcherResponses |-> {Response(FALSE, <<>>)},
     researcherErrors |-> {ServiceError},
     toolThrows |-> {FALSE},
     compressTexts |-> {"", "summary", LongReport},
     compressErrors |-> {},
     reportTexts |-> {"", "final report"},
     reportErrors |-> {ContextLengthError, PromptTooLongError, ServiceError}]

ReportConfigurations ==
    {[Configuration(FALSE, 2, 2) EXCEPT !.finalReportModel = model] :
        model \in FinalReportModels}

InitReport ==
    /\ config \in ReportConfigurations
    /\ node = "clarify_with_user"
    /\ agent = AgentStateDefault
    /\ sup = SupervisorStateDefault
    /\ workers = [w \in Slots |-> ResearcherStateDefault]
    /\ dispatch = NoDispatch
    /\ report = ReportDefault
    /\ stub = ReportStub
    /\ trace = TraceDefault

SpecReport == InitReport /\ [][Next]_vars

(***************************************************************************)
(* The channels of AgentStateAnnotation under arbitrary successive         *)
(* updates: every update a node returns is merged into the channel by the  *)
(* channel's reducer.  notes is a concatReducer channel, researchBrief an  *)
(* overrideReducer channel.                                                *)
(***************************************************************************)
NoteUpdates == {<<>>, <<"note a">>, <<"note b">>, <<"note a", "note b">>}

BriefUpdates ==
    {Plain(v) : v \in {"brief a", "brief b"}} \cup {Override(v) : v \in {"brief a", "brief b"}}

updateNotes ==
    /\ Len(trace.updates) < MaxMerges
    /\ \E newValue \in NoteUpdates :
          /\ agent' = [agent EXCEPT !.notes = concatReducer(@, newValue)]
          /\ trace' = [trace EXCEPT !.updates =
                Append(@, [channel |-> "notes", newValue |-> newValue])]
    /\ UNCHANGED <<config, node, sup, workers, dispatch, report, stub>>

updateResearchBrief ==
    /\ Len(trace.updates) < MaxMerges
    /\ \E newValue \in BriefUpdates :
          /\ agent' = [agent EXCEPT !.researchBrief = overrideReducer(@, newValue)]
          /\ trace' = [trace EXCEPT !.updates =
                Append(@, [channel |-> "researchBrief", newValue |-> newValue])]
    /\ UNCHANGED <<config, node, sup, workers, dispatch, report, stub>>

InitReducers ==
    /\ config = Configuration(FALSE, 1, 1)
    /\ node = "START"
    /\ agent = AgentStateDefault
    /\ sup = SupervisorStateDefault
    /\ workers = [w \in Slots |-> ResearcherStateDefault]
    /\ dispatch = NoDispatch
    /\ report = ReportDefault
    /\ stub = SessionStub(config)
    /\ trace = TraceDefault

NextReducers ==
    \/ updateNotes
    \/ updateResearchBrief

SpecReducers == InitReducers /\ [][NextReducers]_vars

(***************************************************************************)
(* A session whose input state carries a supervisor thread of an earlier   *)
(* run: deepResearcherAgent.invoke({messages, supervisorMessages}).        *)
(***************************************************************************)
InputThreads ==
    {<<>>,
     <<ToolMessage("earlier research", "ConductResearch", 1)>>,
     <<SystemMessage(leadResearcherPrompt(1)), HumanMessage("earlier brief"),
       AIResponse("plan", FALSE, <<>>)>>}

InitResumed ==
    /\ config = Configuration(TRUE, 1, 2)
    /\ node = "clarify_with_user"
    /\ agent \in {[AgentStateDefault EXCEPT !.supervisorMessages = thread] :
                    thread \in InputThreads}
    /\ sup = SupervisorStateDefault
    /\ workers = [w \in Slots |-> ResearcherStateDefault]
    /\ dispatch = NoDispatch
    /\ report = ReportDefault
    /\ stub = SessionStub(config)
    /\ trace = [TraceDefault EXCEPT !.inputSupervisorMessages = agent.supervisorMessages]

SpecResumed == InitResumed /\ [][Next]_vars

(***************************************************************************)
(* Properties.                                                             *)
(***************************************************************************)
Running(w) == workers[w].node \in {"researcher", "researcher_tools", "compress_research"}

LatestToolCalls(messages) ==
    IF Len(messages) = 0 THEN <<>> ELSE messages[Len(messages)].tool_calls

ConductCalls(calls) == SelectSeq(calls, LAMBDA c : c.name = "ConductResearch")

\* C1: the join barrier: in no state has the Supervisor left Dispatching (the await
\* of supervisorTools) while a Researcher it started is still running.
C1_JoinBarrier == sup.node # "awaiting" => \A w \in Slots : ~Running(w)

\* C2: a dispatch with M > maxConcurrentResearchUnits ConductResearch calls starts
\* one Researcher for each of the first `bound` calls and none for the others; the
\* ToolResults it builds answer the ConductResearch calls in call order, each with
\* its call's id, and the M - bound last ones are the overflow text naming the bound.
C2_OverflowAnswered ==
    [][LET calls == ConductCalls(LatestToolCalls(sup.supervisorMessages))
           bound == config.maxConcurrentResearchUnits
           results == SelectSeq(sup'.supervisorMessages,
                                LAMBDA m : m.type = "tool" /\ m.name = "ConductResearch")
       IN  Len(calls) > bound =>
             /\ (sup.node = "supervisor_tools" /\ sup'.node = "awaiting") =>
                  /\ \A w \in Slots : w <= bound =>
                        /\ workers'[w].node = "researcher"
                        /\ workers'[w].researchTopic = calls[w].arg
                  /\ \A w \in Slots : w > bound => workers'[w].node = "idle"
             /\ (sup.node = "awaiting" /\ sup'.node \in {"supervisor", "END"}) =>
                  /\ Len(results) = Len(calls)
                  /\ \A i \in 1..Len(calls) :
                        /\ results[i].tool_call_id = calls[i].id
                        /\ (i > bound) <=> (results[i].content = OverflowText(bound))
      ]_vars

C2_Witness ==
    /\ sup.node = "supervisor"
    /\ Len(sup.supervisorMessages) = config.maxConcurrentResearchUnits + 1
    /\ config.maxConcurrentResearchUnits = 2
    /\ sup.supervisorMessages[3].content = OverflowText(2)
    /\ sup.supervisorMessages[3].tool_call_id = 13

\* C3: when every supervisor response asks for research only and every Researcher
\* returns, the Supervisor loop ends in Done after exactly maxResearcherIterations
\* executions of the supervisor node (never more on the way), and every run of the
\* loop stops.
SupervisorStopped == sup.node \in {"END", "FAILED"} \/ node \in {"END", "FAILED"}

C3_Terminates ==
    /\ []((trace.alwaysResearch /\ trace.supervisorRuns >= 1) =>
            /\ trace.supervisorRuns <= config.maxResearcherIterations
            /\ SupervisorStopped =>
                 /\ sup.node = "END"
                 /\ trace.supervisorRuns = config.maxResearcherIterations)
    /\ <>SupervisorStopped

C3_Witness ==
    /\ sup.node = "END"
    /\ trace.alwaysResearch
    /\ config.maxResearcherIterations = 3
    /\ trace.supervisorRuns = 3

\* C4: compressResearch never raises: a researcher that entered it is in it or has
\* returned, and what it returned is the model output of the invocation that
\* succeeded or the sentinel, with exactly one rawNotes entry, the rendered
\* transcript.
C4_CompressReturns ==
    \A w \in Slots :
        /\ workers[w].compressStarted => workers[w].node \in {"compress_research", "END"}
        /\ workers[w].node = "END" =>
             LET outcomes == workers[w].compressOutcomes
             IN  /\ Len(outcomes) \in 1..3
                 /\ IF outcomes[Len(outcomes)] = "ok"
                    THEN workers[w].compressedResearch \in
                            {ModelText(t, workers[w].researchTopic) : t \in stub.compressTexts}
                    ELSE workers[w].compressedResearch =
                            "Error synthesizing research report: Maximum retries exceeded"
                 /\ Len(workers[w].rawNotes) = 1
                 /\ Len(workers[w].rawNotes[1]) >= 1
                 /\ workers[w].rawNotes[1] = getBufferString(workers[w].compressMessages)

C4_Witness ==
    \E w \in Slots :
        /\ workers[w].node = "END"
        /\ workers[w].compressOutcomes =
              <<ContextLengthError, ContextLengthError, ContextLengthError>>
        /\ workers[w].compressedResearch = ErrorSynthesizing
        /\ Len(workers[w].rawNotes) = 1

\* C5: finalReportGeneration never raises: once it has invoked the Gateway the
\* session is in it or has ended, and it ends with finalReport set to the model
\* output (success), to 'Error generating final report: <error>' (a failure it
\* does not recover from) or to the 'Maximum retries exceeded' text (all attempts
\* failed).
Recoverable(error) ==
    isTokenLimitExceeded(error) /\ getModelTokenLimit(config.finalReportModel) # 0

C5_ReportReturns ==
    LET outcomes == trace.reportOutcomes
        last == outcomes[Len(outcomes)]
    IN  outcomes # <<>> =>
          /\ node \in {"final_report_generation", "END"}
          /\ trace.raised = ""
          /\ node = "final_report_generation" => (last # "ok" /\ Recoverable(last))
          /\ node = "END" =>
               IF last = "ok"
               THEN /\ agent.finalReport = trace.reportOutput
                    /\ trace.reportOutput \in stub.reportTexts
               ELSE IF Recoverable(last)
               THEN agent.finalReport =
                        "Error generating final report: Maximum retries exceeded"
               ELSE agent.finalReport = "Error generating final report: " \o last

C5_Witness ==
    /\ node = "END"
    /\ trace.reportOutcomes = <<ContextLengthError, ServiceError>>
    /\ agent.finalReport = "Error generating final report: Error: 503 service unavailable"

\* C6 (as claimed): across consecutive context-length failures every attempt uses a
\* findings text strictly shorter than the attempt before it, whatever the initial
\* length.
C6_StrictlyShrinks ==
    \A i \in 1..(Len(trace.findingsUsed) - 1) :
        trace.findingsUsed[i + 1] < trace.findingsUsed[i]

\* C6 (amended): every attempt uses a findings text no longer than the attempt
\* before it; the second attempt's is strictly shorter exactly when the first was
\* longer than 4 x the model token limit, a later attempt's exactly when the one
\* before it was not empty.
C6_Truncation ==
    \A i \in 1..(Len(trace.findingsUsed) - 1) :
        LET before == trace.findingsUsed[i]
            after == trace.findingsUsed[i + 1]
        IN  /\ after <= before
            /\ i = 1 => ((after < before) <=>
                            (before > 4 * getModelTokenLimit(config.finalReportModel)))
            /\ i > 1 => ((after < before) <=> (before >= 1))

C6_Witness ==
    /\ Len(trace.findingsUsed) = 4
    /\ trace.findingsUsed[1] > trace.findingsUsed[2]
    /\ trace.findingsUsed[2] > trace.findingsUsed[3]
    /\ trace.findingsUsed[3] > trace.findingsUsed[4]

\* C7: finalReportGeneration invokes the Gateway at most 4 times; after the 4th
\* context-length failure it has returned the 'Maximum retries exceeded' text.
C7_AtMostFourAttempts ==
    LET outcomes == trace.reportOutcomes
    IN  /\ Len(outcomes) <= 4
        /\ (Len(outcomes) = 4 /\ outcomes[4] # "ok" /\ Recoverable(outcomes[4])) =>
              /\ node = "END"
              /\ agent.finalReport = "Error generating final report: Maximum retries exceeded"

C7_Witness ==
    /\ node = "END"
    /\ Len(trace.reportOutcomes) = 4
    /\ \A i \in 1..4 : trace.reportOutcomes[i] = ContextLengthError
    /\ agent.finalReport = "Error generating final report: Maximum retries exceeded"

\* C8: two context-length failures, then success: the second attempt used the
\* original findings clamped to 4 x the model token limit, the third attempt
\* floor(0.9 x the second attempt's length), and finalReport is the third
\* attempt's raw output.
C8_ScenarioC ==
    LET outcomes == trace.reportOutcomes
        used == trace.findingsUsed
        budget == 4 * getModelTokenLimit(config.finalReportModel)
    IN  (/\ Len(outcomes) = 3
         /\ outcomes[1] # "ok" /\ isTokenLimitExceeded(outcomes[1])
         /\ outcomes[2] # "ok" /\ isTokenLimitExceeded(outcomes[2])
         /\ outcomes[3] = "ok") =>
          /\ used[1] = JoinLen(sup.notes)
          /\ used[2] = IF used[1] <= budget THEN used[1] ELSE budget
          /\ 10 * used[3] <= 9 * used[2]
          /\ 9 * used[2] < 10 * (used[3] + 1)
          /\ node = "END"
          /\ agent.finalReport = trace.reportOutput

C8_Witness ==
    /\ node = "END"
    /\ trace.reportOutcomes = <<ContextLengthError, ContextLengthError, "ok">>
    /\ trace.findingsUsed[1] > 4 * getModelTokenLimit(config.finalReportModel)
    /\ trace.findingsUsed[2] = 4 * getModelTokenLimit(config.finalReportModel)
    /\ trace.findingsUsed[3] = 460800
    /\ agent.finalReport = "final report"

\* C9: a researcher whose latest model response carries no tool call (the list
\* absent or empty) leaves researcher_tools for compress_research, with its thread
\* unchanged.
C9_EarlyExit ==
    [][\A w \in Slots :
         (/\ workers[w].node = "researcher_tools"
          /\ workers'[w] # workers[w]
          /\ Len(LatestToolCalls(workers[w].researcherMessages)) = 0) =>
            /\ workers'[w].node = "compress_research"
            /\ workers'[w].researcherMessages = workers[w].researcherMessages
      ]_vars

\* C10: a Gateway failure in the supervisor node does not reach the session caller.
C10_SupervisorFailureContained == trace.raised # "supervisor"

\* C11: a Gateway failure in a researcher's Acting step never surfaces as a failure
\* of the Supervisor dispatch or of the session: no researcher that failed leaves
\* the dispatch, or the session, failed.
C11_WorkerFailureContained ==
    (\E w \in Slots : workers[w].node = "FAILED") =>
        /\ sup.node # "FAILED"
        /\ node # "FAILED"
        /\ trace.raised # "supervisor_tools"

SessionEnded == node \in {"END", "FAILED"}

\* The session ended with the clarifying question: it is the last message, and
\* neither a brief nor a final report exists.
AskedQuestion ==
    /\ node = "END"
    /\ agent.messages[Len(agent.messages)] = AIMessage(ClarifyResponse(TRUE).question)
    /\ agent.researchBrief = ""
    /\ ~report.started

\* The session ended with finalReport set by finalReportGeneration.
ReportSet == node = "END" /\ report.started /\ agent.researchBrief # ""

\* C12: every session eventually ends, and when it has ended it is in exactly one
\* of three outcomes: the clarifying question, a finalReport set, or a failure that
\* left the clarify_with_user or write_research_brief stage.
C12_SessionOutcomes ==
    /\ [](node = "END" => (AskedQuestion /\ ~ReportSet) \/ (ReportSet /\ ~AskedQuestion))
    /\ [](node = "FAILED" => trace.raised \in {"clarify_with_user", "write_research_brief"})
    /\ <>SessionEnded

ReportSucceeded ==
    /\ node = "END"
    /\ trace.reportOutcomes # <<>>
    /\ trace.reportOutcomes[Len(trace.reportOutcomes)] = "ok"

\* C13: when finalReportGeneration has succeeded, the notes of the session state
\* are empty.
C13_NotesCleared == ReportSucceeded => agent.notes = <<>>

\* The entries of `part`, in their order, are among the entries of `whole`.
RECURSIVE IsSubsequence(_, _)
IsSubsequence(part, whole) ==
    IF part = <<>> THEN TRUE
    ELSE IF whole = <<>> THEN FALSE
    ELSE IF Head(part) = Head(whole) THEN IsSubsequence(Tail(part), Tail(whole))
    ELSE IsSubsequence(part, Tail(whole))

\* C14: when the Supervisor has reached Done, notes contains the text of every
\* ToolResult built in any dispatch cycle of the session, in the order they were
\* built.
C14_NotesHoldEveryToolResult ==
    sup.node = "END" => IsSubsequence(trace.toolResults, sup.notes)

IsPrefix(s, t) == Len(s) <= Len(t) /\ SubSeq(t, 1, Len(s)) = s

\* C15: within the Supervisor loop the thread only grows by appending: a supervisor
\* step appends the model response, a supervisorTools step appends that cycle's
\* ToolResults, and the first two messages stay the system prompt and the brief.
C15_ThreadAppendOnly ==
    [][(sup.node # "idle" /\ sup'.node # "FAILED") =>
         LET before == sup.supervisorMessages
             after == sup'.supervisorMessages
             appended == SubSeq(after, Len(before) + 1, Len(after))
         IN  /\ IsPrefix(before, after)
             /\ sup.node = "supervisor" =>
                  (Len(appended) = 1 /\ appended[1].type = "ai")
             /\ sup.node \in {"supervisor_tools", "awaiting"} =>
                  \A i \in 1..Len(appended) : appended[i].type = "tool"
             /\ Len(after) >= 2
             /\ after[1] = SystemMessage(leadResearcherPrompt(config.maxConcurrentResearchUnits))
             /\ after[2] = HumanMessage(sup.researchBrief)
      ]_vars

\* C16: in every state at most maxConcurrentResearchUnits researchers are running,
\* and a dispatch starts researchers for the first maxConcurrentResearchUnits
\* ConductResearch calls only: a call beyond the cap starts none in its cycle.
C16_ConcurrencyBound ==
    /\ [](Cardinality({w \in Slots : Running(w)}) <= config.maxConcurrentResearchUnits)
    /\ [][(sup.node = "supervisor_tools" /\ sup'.node = "awaiting") =>
            LET calls == ConductCalls(LatestToolCalls(sup.supervisorMessages))
                started == {w \in Slots : workers'[w].node # "idle"}
            IN  /\ Cardinality(started) <= config.maxConcurrentResearchUnits
                /\ Cardinality(started) <= Len(calls)
                /\ \A w \in started : workers'[w].researchTopic = calls[w].arg
                /\ \A i \in 1..Len(calls) :
                      i > config.maxConcurrentResearchUnits => i \notin started
         ]_vars

C16_Witness ==
    /\ config.maxConcurrentResearchUnits = 1
    /\ Len(dispatch.overflowConductResearchCalls) = 1
    /\ Running(1)
    /\ workers[2].node = "idle"

\* C17: whatever the order in which the researchers of a dispatch return, the i-th
\* researcher ToolResult that supervisorTools builds carries the id of the i-th
\* accepted ConductResearch call and the compressedResearch of the researcher
\* started for that call (the research of that call's topic, or the sentinel).
C17_PairingByCall ==
    [][(sup.node = "awaiting" /\ sup'.node \in {"supervisor", "END"}) =>
         LET calls == dispatch.conductResearchCalls
             results == sup'.supervisorMessages
         IN  \A i \in 1..Len(calls) :
               /\ workers[i].researchTopic = calls[i].arg
               /\ results[i].type = "tool"
               /\ results[i].tool_call_id = calls[i].id
               /\ results[i].content =
                     (IF workers[i].compressedResearch # ""
                      THEN workers[i].compressedResearch ELSE ErrorSynthesizing)
               /\ results[i].content \in {ModelText("summary", calls[i].arg), ErrorSynthesizing}
      ]_vars

C17_Witness ==
    /\ trace.outOfOrderJoin
    /\ sup.node = "supervisor"
    /\ Len(sup.supervisorMessages) = 2
    /\ sup.supervisorMessages[1].content = "summary of topic 1"
    /\ sup.supervisorMessages[1].tool_call_id = 11
    /\ sup.supervisorMessages[2].content = "summary of topic 2"
    /\ sup.supervisorMessages[2].tool_call_id = 12

ClarifyingQuestion == AIMessage(ClarifyResponse(TRUE).question)

\* C18: once the clarifying question is in the thread (needClarification = true),
\* the session has ended with exactly that one assistant message appended, the
\* brief, supervisor and report stages have not run, and researchBrief and
\* finalReport are unset.
C18_QuestionEndsSession ==
    (\E i \in 1..Len(agent.messages) : agent.messages[i] = ClarifyingQuestion) =>
        /\ node = "END"
        /\ agent.messages = <<HumanMessage(UserQuestion), ClarifyingQuestion>>
        /\ agent.researchBrief = ""
        /\ agent.finalReport = ""
        /\ agent.supervisorMessages = <<>>
        /\ sup = SupervisorStateDefault
        /\ \A w \in Slots : workers[w] = ResearcherStateDefault
        /\ report = ReportDefault
        /\ trace = TraceDefault

C18_Witness ==
    /\ node = "END"
    /\ config.allowClarification
    /\ Len(agent.messages) = 2
    /\ agent.messages[2].content = "clarifying question"
    /\ agent.messages[2].type = "ai"

EarlyStages == {"clarify_with_user", "write_research_brief"}

\* C19: when the structured-output invocation of clarifyWithUser or
\* writeResearchBrief fails, the failure reaches the session caller and the stage
\* updates nothing: no assistant message is appended, researchBrief stays unset and
\* the Supervisor is never started.
C19_EarlyFailurePropagates ==
    /\ [](trace.raised \in EarlyStages =>
            /\ node = "FAILED"
            /\ agent.researchBrief = ""
            /\ agent.supervisorMessages = <<>>
            /\ agent.finalReport = ""
            /\ sup = SupervisorStateDefault
            /\ trace.supervisorRuns = 0
            /\ ~report.started)
    /\ [][(trace.raised = "" /\ trace'.raised \in EarlyStages) =>
            /\ trace'.raised = node
            /\ agent' = agent
            /\ sup' = sup
            /\ workers' = workers
         ]_vars

C19_Witness ==
    /\ node = "FAILED"
    /\ trace.raised = "write_research_brief"
    /\ Len(agent.messages) = 2
    /\ agent.messages[2].content = "verification"
    /\ agent.researchBrief = ""

BriefWritten == node \notin {"clarify_with_user", "write_research_brief"} /\ ~AskedQuestion
                /\ trace.raised \notin EarlyStages

\* C21: writeResearchBrief runs at most once per session (once left, the node is not
\* entered again), it sets researchBrief from unset, and no later step changes it:
\* the Supervisor is seeded with it and every Done transition returns it.
C21_BriefWrittenOnce ==
    /\ [](BriefWritten =>
            /\ agent.researchBrief \in {o.value.researchBrief : o \in {b \in BriefOutcomes : b.ok}}
            /\ sup.node # "idle" => sup.researchBrief = agent.researchBrief)
    /\ [][/\ node \notin {"clarify_with_user", "write_research_brief"} =>
                node' # "write_research_brief"
          /\ (node = "write_research_brief" /\ node' = "research_supervisor") =>
                agent.researchBrief = ""
          /\ agent.researchBrief # "" => agent'.researchBrief = agent.researchBrief
          /\ sup.node # "idle" => sup'.researchBrief = sup.researchBrief
         ]_vars

C21_Witness ==
    /\ node = "final_report_generation"
    /\ sup.node = "END"
    /\ sup.researchIterations = 2
    /\ sup.researchBrief = "research brief"
    /\ agent.researchBrief = "research brief"

SeededThread(brief) ==
    <<SystemMessage(leadResearcherPrompt(config.maxConcurrentResearchUnits)),
      HumanMessage(brief)>>

\* C22: after writeResearchBrief the supervisor thread is exactly the two messages
\* [system prompt, research brief as user message], whatever the thread held before,
\* and researchBrief is the brief the Gateway returned; the Supervisor starts from
\* that thread.
C22_BriefSeedsThread ==
    [][/\ (node = "write_research_brief" /\ node' = "research_supervisor") =>
            /\ agent'.researchBrief \in
                  {o.value.researchBrief : o \in {b \in BriefOutcomes : b.ok}}
            /\ agent'.supervisorMessages = SeededThread(agent'.researchBrief)
       /\ (sup.node = "idle" /\ sup'.node = "supervisor") =>
            sup'.supervisorMessages = SeededThread(agent.researchBrief)
      ]_vars

C22_Witness ==
    /\ Len(trace.inputSupervisorMessages) = 3
    /\ node = "research_supervisor"
    /\ sup.node = "supervisor"
    /\ sup.researchIterations = 0
    /\ Len(sup.supervisorMessages) = 2
    /\ sup.supervisorMessages[2] = HumanMessage("research brief")

CompleteCalls(calls) == SelectSeq(calls, LAMBDA c : c.name = "ResearchComplete")

Contents(messages) == [i \in 1..Len(messages) |-> messages[i].content]

\* The latest supervisor message carries both kinds of call.
MixedCalls ==
    /\ ConductCalls(LatestToolCalls(sup.supervisorMessages)) # <<>>
    /\ CompleteCalls(LatestToolCalls(sup.supervisorMessages)) # <<>>

\* C23: when the latest supervisor message, below the iteration cap, carries both
\* ConductResearch and ResearchComplete calls, supervisorTools first dispatches the
\* accepted ConductResearch calls; once the researchers have returned, the thread
\* ends with their ToolResults followed by one success ToolResult per
\* ResearchComplete call, and the Supervisor is Done with these results in notes.
C23_MixedCallsDispatchThenDone ==
    [][LET calls == LatestToolCalls(sup.supervisorMessages)
           conduct == ConductCalls(calls)
           complete == CompleteCalls(calls)
           accepted == Min(Len(conduct), config.maxConcurrentResearchUnits)
           after == sup'.supervisorMessages
       IN  /\ (/\ sup.node = "supervisor_tools" /\ sup'.node # "supervisor_tools"
               /\ MixedCalls
               /\ sup.researchIterations < config.maxResearcherIterations) =>
                 /\ sup'.node = "awaiting"
                 /\ sup'.notes = sup.notes
                 /\ \A w \in 1..accepted :
                       /\ workers'[w].node = "researcher"
                       /\ workers'[w].researchTopic = conduct[w].arg
           /\ (sup.node = "awaiting" /\ sup'.node \notin {"awaiting", "FAILED"} /\ MixedCalls) =>
                 /\ sup'.node = "END"
                 /\ Len(after) = Len(conduct) + Len(complete)
                 /\ \A i \in 1..Len(conduct) :
                       /\ after[i].name = "ConductResearch"
                       /\ after[i].tool_call_id = conduct[i].id
                 /\ \A i \in 1..accepted :
                       after[i].content =
                          (IF workers[i].compressedResearch # ""
                           THEN workers[i].compressedResearch ELSE ErrorSynthesizing)
                 /\ \A i \in 1..Len(complete) :
                       after[Len(conduct) + i] = ResearchCompleteMessage(complete[i])
                 /\ IsSubsequence(Contents(after), sup'.notes)
      ]_vars

C23_Witness ==
    /\ sup.node = "END"
    /\ sup.researchIterations = 1
    /\ Len(sup.supervisorMessages) = 2
    /\ sup.supervisorMessages[1].name = "ConductResearch"
    /\ sup.supervisorMessages[1].content = "summary of topic 1"
    /\ sup.supervisorMessages[2].name = "ResearchComplete"
    /\ sup.notes = <<"summary of topic 1", "Research completed successfully.">>

\* C24: every dispatch cycle in which at least one researcher ran appends exactly
\* one entry to rawNotes, the concatenated raw notes of that cycle's researchers,
\* whether the cycle goes back to the supervisor or ends in Done.
C24_RawNotesPerCycle ==
    [][(/\ sup.node = "awaiting" /\ sup'.node \in {"supervisor", "END"}
        /\ Len(dispatch.conductResearchCalls) >= 1) =>
          /\ Len(sup'.rawNotes) = Len(sup.rawNotes) + 1
          /\ IsPrefix(sup.rawNotes, sup'.rawNotes)
          /\ sup'.rawNotes[Len(sup'.rawNotes)] =
                JoinLines([i \in Dispatched |-> JoinLines(workers[i].rawNotes)])
      ]_vars

\* C25: the ToolResults built in one dispatch cycle are in the order of the tool
\* calls they answer in the latest supervisor message, for every mix and order of
\* ConductResearch and ResearchComplete calls.
C25_ResultsInCallOrder ==
    [][(sup.node = "awaiting" /\ sup'.node \in {"supervisor", "END"}) =>
          LET calls == LatestToolCalls(sup.supervisorMessages)
              results == SelectSeq(sup'.supervisorMessages, LAMBDA m : m.type = "tool")
          IN  [i \in 1..Len(results) |-> results[i].tool_call_id] =
              [i \in 1..Len(calls) |-> calls[i].id]
      ]_vars

\* C26: a researcher leaves researcher_tools for compress_research as soon as, after
\* a tool batch, toolCallIterations >= maxReactToolCalls or a call named the
\* completion signal; hence it performs at most maxReactToolCalls Acting steps,
\* whatever maxResearcherIterations is.
C26_ReactCap ==
    /\ [](\A w \in Slots : workers[w].toolCallIterations <= config.maxReactToolCalls)
    /\ [][\A w \in Slots :
            (/\ workers[w].node = "researcher_tools"
             /\ workers'[w] # workers[w]
             /\ LatestToolCalls(workers[w].researcherMessages) # <<>>
             /\ \/ workers[w].toolCallIterations >= config.maxReactToolCalls
                \/ CompleteCalls(LatestToolCalls(workers[w].researcherMessages)) # <<>>) =>
               workers'[w].node = "compress_research"
         ]_vars

\* C27: a researcherTools step on a latest message with k >= 1 tool calls appends
\* exactly k ToolResults, the i-th answering the i-th call with that call's id; a
\* tool that throws, or an unknown tool, gives an error ToolResult for its call
\* only, and the step goes on to its next node.
C27_ToolBatchAnswered ==
    [][\A w \in Slots :
         LET calls == LatestToolCalls(workers[w].researcherMessages)
             before == workers[w].researcherMessages
             after == workers'[w].researcherMessages
             results == SubSeq(after, Len(before) + 1, Len(after))
         IN  (/\ workers[w].node = "researcher_tools"
              /\ workers'[w] # workers[w]
              /\ Len(calls) >= 1) =>
                /\ workers'[w].node \in {"researcher", "compress_research"}
                /\ IsPrefix(before, after)
                /\ Len(results) = Len(calls)
                /\ \A i \in 1..Len(calls) :
                      /\ results[i].type = "tool"
                      /\ results[i].tool_call_id = calls[i].id
                      /\ results[i].name = calls[i].name
                      /\ IF calls[i].name \notin ToolNames
                         THEN results[i].content = "Tool " \o calls[i].name \o " not found"
                         ELSE results[i].content \in
                                {ToolOutput(calls[i].name),
                                 "Error executing tool " \o calls[i].name \o ": " \o ServiceError}
      ]_vars

C27_Witness ==
    \E w \in Slots :
        LET thread == workers[w].researcherMessages
        IN  /\ workers[w].node = "compress_research"
            /\ Len(thread) >= 2
            /\ thread[Len(thread) - 1].content =
                  "Error executing tool tavily_search: " \o ServiceError
            /\ thread[Len(thread) - 1].tool_call_id = 11
            /\ thread[Len(thread)].content = "Research marked as complete"
            /\ thread[Len(thread)].tool_call_id = 12

\* C28: after each Acting step of a researcher the thread is the previous thread
\* followed by exactly one new message, the model response.
C28_ActingAppendsOne ==
    [][\A w \in Slots :
         (workers[w].node = "researcher" /\ workers'[w].node = "researcher_tools") =>
            LET before == workers[w].researcherMessages
                after == workers'[w].researcherMessages
            IN  /\ Len(after) = Len(before) + 1
                /\ IsPrefix(before, after)
                /\ after[Len(after)].type = "ai"
      ]_vars

\* C29: compressResearch invokes the Gateway at most 3 times in one run; after
\* three context-length failures it has returned the sentinel.
C29_AtMostThreeAttempts ==
    \A w \in Slots :
        LET outcomes == workers[w].compressOutcomes
        IN  /\ Len(outcomes) <= 3
            /\ workers[w].synthesisAttempts <= 3
            /\ (Len(outcomes) = 3 /\ \A i \in 1..3 : outcomes[i] # "ok") =>
                  /\ workers[w].node = "END"
                  /\ workers[w].compressedResearch = ErrorSynthesizing

C29_Witness ==
    \E w \in Slots :
        /\ workers[w].node = "END"
        /\ workers[w].synthesisAttempts = 3
        /\ Len(workers[w].compressOutcomes) = 3
        /\ \A i \in 1..3 : isTokenLimitExceeded(workers[w].compressOutcomes[i])
        /\ workers[w].compressedResearch =
              "Error synthesizing research report: Maximum retries exceeded"

\* C30: in compressResearch, after a context-length failure with attempts remaining,
\* the transcript of the next attempt is the previous transcript cut just before its
\* most recent assistant message, strictly shorter whenever there is such a message
\* (and the previous transcript itself when there is none).
C30_PruneToLastAssistant ==
    [][\A w \in Slots :
         (/\ workers[w].node = "compress_research"
          /\ workers'[w].node = "compress_research"
          /\ workers'[w] # workers[w]) =>
            LET previous == IF workers[w].compressStarted
                            THEN workers[w].compressMessages
                            ELSE CompressionTranscript(workers[w].researcherMessages)
                following == workers'[w].compressMessages
                assistants == {i \in 1..Len(previous) : previous[i].type = "ai"}
                lastAssistant == CHOOSE i \in assistants : \A j \in assistants : j <= i
                outcomes == workers'[w].compressOutcomes
            IN  /\ isTokenLimitExceeded(outcomes[Len(outcomes)])
                /\ workers'[w].synthesisAttempts < 3
                /\ IF assistants = {}
                   THEN following = previous
                   ELSE /\ following = SubSeq(previous, 1, lastAssistant - 1)
                        /\ Len(following) < Len(previous)
      ]_vars

C30_Witness ==
    \E w \in Slots :
        LET first == CompressionTranscript(workers[w].researcherMessages)
            kept == workers[w].compressMessages
        IN  /\ workers[w].node = "compress_research"
            /\ workers[w].compressStarted
            /\ Len(workers[w].compressOutcomes) = 1
            /\ isTokenLimitExceeded(workers[w].compressOutcomes[1])
            /\ Len(kept) < Len(first)
            /\ first[Len(kept) + 1].type = "ai"
            /\ \A i \in (Len(kept) + 2)..Len(first) : first[i].type # "ai"

\* C31: in compressResearch a Gateway failure that is not a context-length failure
\* is the last Gateway invocation of the run, whatever attempts remain, and the run
\* has returned the sentinel result.
C31_OtherFailureEndsCompression ==
    \A w \in Slots :
        LET outcomes == workers[w].compressOutcomes
        IN  \A i \in 1..Len(outcomes) :
              outcomes[i] = ServiceError =>
                 /\ i = Len(outcomes)
                 /\ workers[w].node = "END"
                 /\ workers[w].compressedResearch = ErrorSynthesizing
                 /\ Len(workers[w].rawNotes) = 1

C31_Witness ==
    \E w \in Slots :
        /\ workers[w].compressOutcomes = <<ServiceError>>
        /\ workers[w].synthesisAttempts = 1
        /\ workers[w].node = "END"
        /\ workers[w].compressedResearch = ErrorSynthesizing

\* C32: in finalReportGeneration every context-length failure on one of the first 3
\* attempts is followed by another Gateway attempt on truncated findings, for every
\* configured finalReportModel.
C32_ContextFailureRetried ==
    LET outcomes == trace.reportOutcomes
    IN  \A i \in 1..Min(3, Len(outcomes)) :
          isTokenLimitExceeded(outcomes[i]) =>
             \/ /\ i = Len(outcomes)
                /\ node = "final_report_generation"
                /\ report.currentRetry = i
             \/ /\ i < Len(outcomes)
                /\ trace.findingsUsed[i + 1] <= trace.findingsUsed[i]

\* C33: in finalReportGeneration a Gateway failure that is not a context-length
\* failure is the last Gateway invocation, whatever attempts remain, and finalReport
\* is 'Error generating final report: <error>'.
C33_OtherFailureAbortsReport ==
    LET outcomes == trace.reportOutcomes
    IN  \A i \in 1..Len(outcomes) :
          outcomes[i] = ServiceError =>
             /\ i = Len(outcomes)
             /\ node = "END"
             /\ agent.finalReport =
                   "Error generating final report: Error: 503 service unavailable"
             /\ report.currentRetry = i - 1

C33_Witness ==
    /\ node = "END"
    /\ trace.reportOutcomes = <<ServiceError>>
    /\ report.currentRetry = 0
    /\ agent.finalReport = "Error generating final report: " \o ServiceError

\* C34: concurrently running researchers share no mutable state: each starts from
\* its own thread [system prompt, its topic] with its counter at 0; a step of one
\* researcher changes no field of another researcher, of the supervisor state or of
\* the agent state; the supervisor's messages, notes and rawNotes change only in
\* steps of the supervisor taken while no researcher is running.
C34_ResearchersIsolated ==
    [][/\ \A w \in Slots :
            (~Running(w) /\ workers'[w].node = "researcher") =>
               /\ w \in 1..Len(dispatch'.conductResearchCalls)
               /\ workers'[w].researcherMessages =
                     <<SystemMessage(researchSystemPrompt),
                       HumanMessage(dispatch'.conductResearchCalls[w].arg)>>
               /\ workers'[w].toolCallIterations = 0
               /\ workers'[w].rawNotes = <<>>
       /\ \A w \in Slots :
            (Running(w) /\ workers'[w] # workers[w]) =>
               /\ \A v \in Slots \ {w} : workers'[v] = workers[v]
               /\ sup' = sup
               /\ agent' = agent
       /\ (\/ sup'.supervisorMessages # sup.supervisorMessages
           \/ sup'.notes # sup.notes
           \/ sup'.rawNotes # sup.rawNotes) =>
               /\ \A w \in Slots : ~Running(w)
               /\ sup.node \in {"idle", "supervisor", "supervisor_tools", "awaiting"}
      ]_vars

C34_Witness ==
    /\ sup.node = "awaiting"
    /\ workers[1].node = "compress_research"
    /\ workers[2].node = "researcher"
    /\ workers[1].researchTopic # workers[2].researchTopic
    /\ workers[2].researcherMessages =
          <<SystemMessage(researchSystemPrompt), HumanMessage(workers[2].researchTopic)>>
    /\ workers[2].toolCallIterations = 0
    /\ Len(workers[1].researcherMessages) > 2

\* C35: every ToolResult that supervisorTools builds for an accepted ConductResearch
\* call has non-empty content: the researcher's compressedResearch when that is
\* non-empty, otherwise the literal 'Error synthesizing research report: Maximum
\* retries exceeded'.
C35_ResultContentNonEmpty ==
    [][(sup.node = "awaiting" /\ sup'.node \in {"supervisor", "END"}) =>
          \A i \in 1..Len(dispatch.conductResearchCalls) :
             LET result == sup'.supervisorMessages[i]
                 compressedResearch == workers[i].compressedResearch
             IN  /\ result.type = "tool"
                 /\ result.tool_call_id = dispatch.conductResearchCalls[i].id
                 /\ result.content # ""
                 /\ compressedResearch # "" => result.content = compressedResearch
                 /\ compressedResearch = "" => result.content =
                       "Error synthesizing research report: Maximum retries exceeded"
      ]_vars

\* Under SpecReport compression never fails, so the sentinel content below stands
\* for a researcher whose model returned empty text.
C35_Witness ==
    /\ sup.node = "supervisor"
    /\ Len(sup.supervisorMessages) = 2
    /\ sup.supervisorMessages[1].type = "tool"
    /\ sup.supervisorMessages[1].content = ErrorSynthesizing
    /\ sup.supervisorMessages[2].type = "tool"
    /\ sup.supervisorMessages[2].content = "summary of " \o Topic(2)

\* C36: in the supervisor cycle in which researchIterations reaches
\* maxResearcherIterations, supervisorTools starts no researcher and builds no
\* ToolResult for the tool calls of the latest response; so a supervisor run has at
\* most maxResearcherIterations - 1 dispatch cycles, and none at all when
\* maxResearcherIterations = 1.
C36_LastCycleDispatchesNothing ==
    /\ [](/\ trace.dispatchCycles <= config.maxResearcherIterations - 1
          /\ config.maxResearcherIterations = 1 =>
                \A w \in Slots : workers[w] = ResearcherStateDefault)
    /\ [][(/\ sup.node = "supervisor_tools"
           /\ sup.researchIterations >= config.maxResearcherIterations
           /\ sup' # sup) =>
              /\ sup'.node = "END"
              /\ workers' = workers
              /\ \A w \in Slots : ~Running(w)
              /\ sup'.supervisorMessages = sup.supervisorMessages
              /\ trace' = trace
          ]_vars

C36_Witness ==
    /\ config.maxResearcherIterations = 3
    /\ sup.node = "END"
    /\ sup.researchIterations = 3
    /\ trace.dispatchCycles = 2
    /\ LET latest == sup.supervisorMessages[Len(sup.supervisorMessages)]
       IN  /\ latest.type = "ai"
           /\ Len(latest.tool_calls) > 0
           /\ latest.tool_calls[1].name = "ConductResearch"

\* C37: whenever supervisorTools returns to the supervisor node, every
\* ConductResearch and ResearchComplete tool call of the latest model response is
\* answered by exactly one ToolResult with that call's id, and no ToolResult
\* answers anything else.
C37_EveryCallAnsweredOnce ==
    [][(sup.node \in {"supervisor_tools", "awaiting"} /\ sup'.node = "supervisor") =>
          LET calls == SelectSeq(LatestToolCalls(sup.supervisorMessages),
                                 LAMBDA c : c.name \in {"ConductResearch", "ResearchComplete"})
              results == SelectSeq(sup'.supervisorMessages, LAMBDA m : m.type = "tool")
          IN  /\ \A i \in 1..Len(calls) :
                    Cardinality({j \in 1..Len(results) :
                                    results[j].tool_call_id = calls[i].id}) = 1
              /\ \A j \in 1..Len(results) :
                    \E i \in 1..Len(calls) :
                        /\ results[j].tool_call_id = calls[i].id
                        /\ results[j].name = calls[i].name
      ]_vars

C37_Witness ==
    /\ config.maxConcurrentResearchUnits = 2
    /\ sup.node = "supervisor"
    /\ trace.dispatchCycles = 1
    /\ Len(sup.supervisorMessages) = 3
    /\ \A j \in 1..3 :
          /\ sup.supervisorMessages[j].type = "tool"
          /\ sup.supervisorMessages[j].tool_call_id = 10 + j

\* C38: every Gateway attempt of compressResearch, the retries after a context-length
\* pruning included, is made on a transcript whose last message is the 'summarize
\* now' instruction appended at the start of the stage.
C38_InstructionStaysLast ==
    [][\A w \in Slots :
         (/\ workers[w].node = "compress_research"
          /\ Len(workers'[w].compressOutcomes) = Len(workers[w].compressOutcomes) + 1) =>
            LET transcript == IF workers[w].compressStarted
                              THEN workers[w].compressMessages
                              ELSE CompressionTranscript(workers[w].researcherMessages)
            IN  /\ Len(transcript) > 0
                /\ transcript[Len(transcript)] =
                      HumanMessage(compressResearchSimpleHumanMessage)
      ]_vars

\* C39: with allowClarification = false, clarifyWithUser goes to the brief stage
\* without invoking the Gateway (an invocation would append its answer to the thread
\* or raise) and without appending any message: the thread writeResearchBrief sees
\* is exactly the input thread.
C39_ClarificationDisabled ==
    /\ []((~config.allowClarification /\ node = "write_research_brief") =>
             /\ agent.messages = <<HumanMessage(UserQuestion)>>
             /\ trace.raised = "")
    /\ [][(~config.allowClarification /\ node = "clarify_with_user" /\ node' # node) =>
             /\ node' = "write_research_brief"
             /\ agent' = agent
             /\ trace' = trace
         ]_vars

C39_Witness ==
    /\ ~config.allowClarification
    /\ node = "write_research_brief"
    /\ agent.messages = <<HumanMessage(UserQuestion)>>
    /\ agent.researchBrief = ""

\* C40: the merge policies are pure and behave as named.  overrideReducer(cur, new)
\* is new, or new.value when new is tagged 'override' with a value, whatever cur is;
\* concatReducer(cur, new) is cur followed by new, so concatReducer(cur, []) = cur
\* and merging successive updates is associative: a channel holds the updates it
\* received, in order, however they were grouped.
C40_MergePolicies ==
    LET noteUpdates == SelectSeq(trace.updates, LAMBDA u : u.channel = "notes")
        briefUpdates == SelectSeq(trace.updates, LAMBDA u : u.channel = "researchBrief")
    IN  /\ agent.notes = Flatten([i \in 1..Len(noteUpdates) |-> noteUpdates[i].newValue])
        /\ agent.researchBrief =
              IF briefUpdates = <<>> THEN ""
              ELSE briefUpdates[Len(briefUpdates)].newValue.value
        /\ concatReducer(agent.notes, <<>>) = agent.notes
        /\ \A b \in NoteUpdates :
              /\ concatReducer(agent.notes, b) = agent.notes \o b
              /\ \A c \in NoteUpdates :
                    concatReducer(concatReducer(agent.notes, b), c) =
                       concatReducer(agent.notes, concatReducer(b, c))
        /\ \A v \in {"brief a", "brief b"} :
              /\ overrideReducer(agent.researchBrief, Plain(v)) = v
              /\ overrideReducer(agent.researchBrief, Override(v)) = v
              /\ overrideReducer(agent.notes, Plain(v)) = v

C40_Witness ==
    /\ Len(trace.updates) = 3
    /\ trace.updates[1] = [channel |-> "notes", newValue |-> <<"note b">>]
    /\ trace.updates[2] = [channel |-> "researchBrief", newValue |-> Override("brief a")]
    /\ trace.updates[3] = [channel |-> "notes", newValue |-> <<"note a", "note b">>]
    /\ agent.notes = <<"note b", "note a", "note b">>
    /\ agent.researchBrief = "brief a"

====
